---- MODULE Spec2Model ----
(***************************************************************************)
(* Model of my_py_framework/data/compare_dataframes.py:                    *)
(* audit_dataframe_differences, the reconciliation of a source and a       *)
(* target DataFrame on a primary key.                                      *)
(*                                                                         *)
(* A DataFrame is [columns |-> sequence of names, rows |-> sequence of     *)
(* tuples], a row being aligned with the columns.  A cell is a tagged      *)
(* value [tag, n, s]: a Python int, a Python str, float NaN or None.       *)
(* DataFrame.astype(str) is modelled as pandas 1.x/2.x performs it: every  *)
(* cell becomes the str() of its value, missing values included.           *)
(***************************************************************************)
EXTENDS Integers, Sequences, FiniteSets, TLC

\* ------------------------------------------------------------ constants
MISSING_IN_TARGET == "Target"
MISSING_IN_SOURCE == "Source"
MESSAGE_NO_MISMATCHED_RECORDS == "There are no mismatched Records in Oracle and Postgres"
MESSAGE_NO_DIFFERENCES_FOUND == "No differences found"

\* ------------------------------------------------------------ cells
IntCell(k) == [tag |-> "int", n |-> k, s |-> ""]
StrCell(t) == [tag |-> "str", n |-> 0, s |-> t]
NaN == [tag |-> "nan", n |-> 0, s |-> ""]
NoneCell == [tag |-> "none", n |-> 0, s |-> ""]

\* Python's str() of a cell value
PyStr(v) ==
  CASE v.tag = "int" -> ToString(v.n)
    [] v.tag = "str" -> v.s
    [] v.tag = "nan" -> "nan"
    [] v.tag = "none" -> "None"

\* pd.isna of a scalar: true of NaN and None, false of every str and int
isna(v) == v.tag \in {"nan", "none"}

\* str.lower() on the column and key names the model uses
lower(name) ==
  CASE name \in {"id", "ID", "Id"} -> "id"
    [] name \in {"age", "AGE", "Age"} -> "age"
    [] name \in {"name", "NAME", "Name"} -> "name"
    [] name \in {"email", "Email"} -> "email"
    [] OTHER -> name

\* ------------------------------------------------------------ sequences
Range(seq) == {seq[i] : i \in 1..Len(seq)}

\* position of a column label in a column index
get_loc(columns, col) == CHOOSE i \in 1..Len(columns) : columns[i] = col

RemoveAt(seq, p) == [i \in 1..(Len(seq) - 1) |-> IF i < p THEN seq[i] ELSE seq[i + 1]]

\* the subsequence of seq at the positions whose flag is TRUE (boolean indexing)
RECURSIVE Mask(_, _)
Mask(seq, flags) ==
  IF seq = <<>> THEN <<>>
  ELSE (IF Head(flags) THEN <<Head(seq)>> ELSE <<>>) \o Mask(Tail(seq), Tail(flags))

\* the first occurrences of seq, in order (Index.unique)
RECURSIVE unique(_)
unique(seq) ==
  IF seq = <<>> THEN <<>>
  ELSE LET init == unique(SubSeq(seq, 1, Len(seq) - 1))
           last == seq[Len(seq)]
       IN IF last \in Range(init) THEN init ELSE Append(init, last)

\* ------------------------------------------------------------ DataFrame
\* df.columns.str.lower()
\* mutant of columns_str_lower: str.swapcase() in the place of str.lower()
swapcase(name) ==
  CASE name = "id" -> "ID" [] name = "ID" -> "id" [] name = "Id" -> "iD"
    [] name = "age" -> "AGE" [] name = "AGE" -> "age" [] name = "Age" -> "aGE"
    [] name = "name" -> "NAME" [] name = "NAME" -> "name" [] name = "Name" -> "nAME"
    [] name = "email" -> "EMAIL" [] name = "Email" -> "eMAIL"
    [] OTHER -> name
columns_str_swapcase(df) == [c \in 1..Len(df.columns) |-> swapcase(df.columns[c])]

columns_str_lower(df) == [c \in 1..Len(df.columns) |-> lower(df.columns[c])]

\* mutant of astype_str: the conversion to strings is left out
astype_str_skipped(df) == df

\* df.astype(str): a new frame, every cell the str() of its value
astype_str(df) ==
  [columns |-> df.columns,
   rows |-> [r \in 1..Len(df.rows) |->
               [c \in 1..Len(df.rows[r]) |-> StrCell(PyStr(df.rows[r][c]))]]]

\* df[col]: the column as a sequence of cells
Column(df, col) == [r \in 1..Len(df.rows) |-> df.rows[r][get_loc(df.columns, col)]]

\* df.set_index(col): the key column becomes the index and leaves the columns
set_index(df, col) ==
  LET p == get_loc(df.columns, col)
  IN [index |-> Column(df, col),
      columns |-> RemoveAt(df.columns, p),
      rows |-> [r \in 1..Len(df.rows) |-> RemoveAt(df.rows[r], p)]]

\* indexed.loc[idx]: the rows labelled idx, one (a Series) or several (a DataFrame)
loc(indexed, idx) ==
  Mask(indexed.rows, [r \in 1..Len(indexed.rows) |-> indexed.index[r] = idx])

\* left.index.intersection(right.index): the common labels, each once, in the
\* order of their first occurrence in left
\* mutant of intersection: the common labels in the order of the right index
intersection_right_order(left, right) ==
  SelectSeq(unique(right), LAMBDA k : k \in Range(left))

\* mutant of intersection: every label of the left index
intersection_unfiltered(left, right) == unique(left)

intersection(left, right) ==
  SelectSeq(unique(left), LAMBDA k : k \in Range(right))

\* ------------------------------------------------------------ the routine
NoError == [exc |-> "", msg |-> "", args |-> <<>>]
SchemaMismatch ==
  [exc |-> "ValueError",
   msg |-> "The DataFrames must have the same columns to compare.",
   args |-> <<>>]
\* mutant of MissingKeyColumn: the message is no f-string and names no key
MissingKeyColumn_unnamed(pk) ==
  [exc |-> "ValueError",
   msg |-> "Primary key '{primary_key}' not found in one or both DataFrames.",
   args |-> <<>>]

MissingKeyColumn(pk) ==
  [exc |-> "ValueError",
   msg |-> "Primary key '{primary_key}' not found in one or both DataFrames.",
   args |-> <<pk>>]
\* bool() of a Series of several elements, raised by pandas at an if/elif
AmbiguousTruthValue ==
  [exc |-> "ValueError",
   msg |-> "The truth value of a Series is ambiguous.",
   args |-> <<>>]

\* mutant of validate: the key is looked up before the column sets are compared
validate_key_first(srce_columns, trgt_columns, pk) ==
  IF pk \notin Range(srce_columns) \/ pk \notin Range(trgt_columns)
  THEN MissingKeyColumn(pk)
  ELSE IF Range(srce_columns) # Range(trgt_columns) THEN SchemaMismatch
       ELSE NoError

\* the two validations, in the order of the code; NoError when both pass
validate(srce_columns, trgt_columns, pk) ==
  IF Range(srce_columns) # Range(trgt_columns) THEN SchemaMismatch
  ELSE IF pk \notin Range(srce_columns) \/ pk \notin Range(trgt_columns)
       THEN MissingKeyColumn(pk)
       ELSE NoError

\* mutant of not_isin: the negation is left out
isin(left, right, pk) ==
  LET keys == Range(Column(right, pk))
  IN [r \in 1..Len(left.rows) |-> Column(left, pk)[r] \in keys]

\* ~left[pk].isin(right[pk]): one flag per row of left
not_isin(left, right, pk) ==
  LET keys == Range(Column(right, pk))
  IN [r \in 1..Len(left.rows) |-> Column(left, pk)[r] \notin keys]

\* the rows of left whose key is in no row of right, as
\* [[pk, "missing_in", "table_name"]] records
rows_missing_in(left, right, pk, side, table) ==
  LET keys == Mask(Column(left, pk), not_isin(left, right, pk))
  IN [i \in 1..Len(keys) |->
        [primary_key |-> keys[i], missing_in |-> side, table_name |-> table]]

\* mutant of missing_records: the rows missing in the source come first
missing_records_source_first(srce, trgt, pk, srce_table, trgt_table) ==
  rows_missing_in(trgt, srce, pk, MISSING_IN_SOURCE, srce_table)
    \o rows_missing_in(srce, trgt, pk, MISSING_IN_TARGET, trgt_table)

\* mutant of missing_records: each side is reported under its own table name
missing_records_own_table(srce, trgt, pk, srce_table, trgt_table) ==
  rows_missing_in(srce, trgt, pk, MISSING_IN_TARGET, srce_table)
    \o rows_missing_in(trgt, srce, pk, MISSING_IN_SOURCE, trgt_table)

\* mutant of missing_records: the second selection repeats the first one
missing_records_copied_selection(srce, trgt, pk, srce_table, trgt_table) ==
  rows_missing_in(srce, trgt, pk, MISSING_IN_TARGET, trgt_table)
    \o rows_missing_in(srce, trgt, pk, MISSING_IN_SOURCE, srce_table)

\* pd.concat of the rows missing in the target and the rows missing in the source
missing_records(srce, trgt, pk, srce_table, trgt_table) ==
  rows_missing_in(srce, trgt, pk, MISSING_IN_TARGET, trgt_table)
    \o rows_missing_in(trgt, srce, pk, MISSING_IN_SOURCE, srce_table)

\* mutant of or_message: the message is appended to every report
or_message_appended(report, message) == report \o <<[message |-> message]>>

\* an empty report is replaced by one record that carries a message
or_message(report, message) ==
  IF report = <<>> THEN <<[message |-> message]>> ELSE report

\* mutant of select_columns: the omitted names are matched as they were given
select_columns_case_sensitive(indexed_columns, pk, omit) ==
  LET not_key == SelectSeq(indexed_columns, LAMBDA col : col # pk)
  IN SelectSeq(not_key, LAMBDA col : col \notin Range(omit))

\* the columns whose values are compared: those of the indexed source frame
\* but the key and the omitted ones
select_columns(indexed_columns, pk, omit) ==
  LET not_key == SelectSeq(indexed_columns, LAMBDA col : col # pk)
      omit_columns_lower == {lower(omit[i]) : i \in 1..Len(omit)}
  IN IF omit # <<>>
     THEN SelectSeq(not_key, LAMBDA col : col \notin omit_columns_lower)
     ELSE not_key

\* the comparison of one column of one record: no or one difference
compare_cell(idx, col, source_value, target_value) ==
  LET is_source_na == isna(source_value)
      is_target_na == isna(target_value)
      difference == [primary_key |-> idx, column |-> col,
                     srce_df_value |-> source_value,
                     trgt_df_value |-> target_value]
  IN IF is_source_na /\ is_target_na THEN <<>>
     ELSE IF is_source_na \/ is_target_na THEN <<difference>>
     ELSE IF source_value # target_value THEN <<difference>>
     ELSE <<>>

RECURSIVE compare_columns(_, _, _, _, _, _)
compare_columns(idx, cols, srce_columns, trgt_columns, source_row, target_row) ==
  IF cols = <<>> THEN <<>>
  ELSE compare_cell(idx, Head(cols),
                    source_row[get_loc(srce_columns, Head(cols))],
                    target_row[get_loc(trgt_columns, Head(cols))])
       \o compare_columns(idx, Tail(cols), srce_columns, trgt_columns,
                          source_row, target_row)

\* one pass of the loop over common_indices.  A label that several rows of a
\* frame carry selects a DataFrame, its columns are Series, and the first
\* `if` on one of them raises.
compare_record(idx, cols, srce_indexed, trgt_indexed) ==
  LET source_rows == loc(srce_indexed, idx)
      target_rows == loc(trgt_indexed, idx)
  IN IF cols # <<>> /\ (Len(source_rows) > 1 \/ Len(target_rows) > 1)
     THEN [raised |-> TRUE, differences |-> <<>>]
     ELSE [raised |-> FALSE,
           differences |-> compare_columns(idx, cols, srce_indexed.columns,
                                           trgt_indexed.columns,
                                           source_rows[1], target_rows[1])]

\* ------------------------------------------------------------ inputs
\* the largest number of rows of the two tables together, in the exhaustive inputs
MaxRows == 3

KeyCells == {IntCell(1), IntCell(2), IntCell(3)}
AgeCells == {IntCell(30), StrCell("30"), IntCell(31), NaN}

DataFrame(columns, rows) == [columns |-> columns, rows |-> rows]

\* every pair of (id, age) tables of at most MaxRows rows together
GridRows == {<<k, v>> : k \in KeyCells, v \in AgeCells}
GridPairs ==
  UNION {[1..mn[1] -> GridRows] \X [1..(mn[2] - mn[1]) -> GridRows] :
           mn \in {mn \in (0..MaxRows) \X (0..MaxRows) : mn[1] <= mn[2]}}

\* the records of the scenarios of the specification: customers by column
\* name; no customer has an email, which the source system hands over as None
\* and the target system as NaN; one target table holds its id as text
Customer(id, age, name, email) ==
  [id |-> IntCell(id), age |-> IntCell(age), name |-> StrCell(name),
   email |-> email]
SrceCustomers ==
  {<<Customer(1, 30, "Alice", NoneCell), Customer(2, 24, "Bob", NoneCell)>>,
   <<Customer(1, 30, "Alice", NoneCell)>>}
TrgtCustomers ==
  {<<Customer(1, 30, "Alice", NaN), Customer(3, 24, "Bob", NaN)>>,
   <<Customer(1, 31, "Alicia", NaN)>>,
   <<[Customer(1, 30, "Alice", NaN) EXCEPT !.id = StrCell("1")]>>,
   <<Customer(2, 25, "Bobby", NaN), Customer(1, 31, "Alicia", NaN)>>}

Layouts ==
  {<<"id", "age">>, <<"ID", "Age">>, <<"age", "id">>, <<"id", "name">>,
   <<"id", "email">>, <<"id", "age", "name">>, <<"ID", "Name", "AGE">>,
   <<"age", "name">>}
KeyNames == {"id", "ID"}
OmitLists == {<<>>, <<"AGE">>, <<"name">>, <<"age", "name">>}
TableNames ==
  {<<"Source_Customers", "Target_Customers">>, <<"customers", "customers">>}

\* the table of the customers under a layout of columns
Table(layout, customers) ==
  DataFrame(layout,
            [r \in 1..Len(customers) |->
               [c \in 1..Len(layout) |-> customers[r][lower(layout[c])]]])

\* ------------------------------------------------------------ state
VARIABLES
  args,                \* the arguments of the call, as they were passed
  caller_srce,         \* the source DataFrame object the caller owns
  caller_trgt,         \* the target DataFrame object the caller owns
  pc,                  \* position in audit_dataframe_differences
  srce_df, trgt_df,    \* the local names, rebound by astype(str)
  error,               \* the exception that left the routine
  missing_data_df,
  srce_df_indexed, trgt_df_indexed,
  common_indices,
  columns_to_compare,
  differences,
  pos,                 \* the next position of the loop in common_indices
  mismatch_columns_df,
  returned,            \* the pair of reports the caller received
  previous,            \* the outcomes of the caller's earlier calls
  older,               \* the outcome of compare_records_cols on the same input
  queue, qmgr,         \* MQClient: the objects self.queue and self.qmgr refer to
  broker,              \* the messages on the queue of the queue manager
  out_file,            \* the lines receive_messages_to_file has written
  mq_call,             \* the last call of an MQClient method and how it ended
  mq_calls,            \* the number of MQClient calls made
  db_pc,               \* position in Database.run_query
  conn, cursor,        \* run_query: its local names
  db_result,           \* how the last run_query ended
  connections,         \* the connections open at the database server
  queries,             \* the number of run_query calls made
  key_df,              \* get_expected_s3_key: the rows of df, (std_img, s3_bucket_id)
  key_priority,        \* get_expected_s3_key: priority_list
  key_result,          \* what get_expected_s3_key returned
  key_new_result       \* how get_expected_s3_key_new ended

vars ==
  <<args, caller_srce, caller_trgt, pc, srce_df, trgt_df, error, missing_data_df,
    srce_df_indexed, trgt_df_indexed, common_indices, columns_to_compare,
    differences, pos, mismatch_columns_df, returned, previous, older,
    queue, qmgr, broker, out_file, mq_call, mq_calls,
    db_pc, conn, cursor, db_result, connections, queries,
    key_df, key_priority, key_result, key_new_result>>

\* what audit_dataframe_differences never touches
mq_vars == <<queue, qmgr, broker, out_file, mq_call, mq_calls>>
db_vars == <<db_pc, conn, cursor, db_result, connections, queries>>
key_vars == <<key_df, key_priority, key_result, key_new_result>>
others == <<older, mq_vars, db_vars, key_vars>>

\* no MQClient exists, run_query is not running, no key is being resolved
NoCall == [op |-> "", raised |-> FALSE, result |-> <<>>, handle |-> "",
           before |-> <<>>, max_messages |-> 0]
MQIdle ==
  /\ queue = "None"
  /\ qmgr = "None"
  /\ broker = <<>>
  /\ out_file = <<>>
  /\ mq_call = NoCall
  /\ mq_calls = 0
NoResult == [outcome |-> "", df |-> "", failed |-> ""]
DBIdle ==
  /\ db_pc = "idle"
  /\ conn = "unbound"
  /\ cursor = "unbound"
  /\ db_result = NoResult
  /\ connections = 0
  /\ queries = 0
KeyIdle ==
  /\ key_df = <<>>
  /\ key_priority = <<>>
  /\ key_result = <<>>
  /\ key_new_result = <<>>

\* compare_records_cols has not been called
NotCalled == [pc |-> "call", returned |-> <<>>, error |-> NoError]

Arguments(srce, trgt, pk, names, omit) ==
  [srce_df |-> srce, trgt_df |-> trgt, primary_key |-> pk,
   srce_table |-> names[1], trgt_table |-> names[2], omit_columns |-> omit]

GridArguments ==
  {Arguments(DataFrame(<<"id", "age">>, st[1]), DataFrame(<<"id", "age">>, st[2]),
             "id", <<"Source_Customers", "Target_Customers">>, <<>>) :
     st \in GridPairs}

\* one table handed over as both the source and the target; the two copies
\* together hold one row more than MaxRows at most
SelfArguments ==
  {Arguments(DataFrame(<<"id", "age">>, rows), DataFrame(<<"id", "age">>, rows),
             "id", <<"Source_Customers", "Target_Customers">>, <<>>) :
     rows \in UNION {[1..n -> GridRows] : n \in 0..((MaxRows + 1) \div 2)}}

ScenarioArguments ==
  {Arguments(Table(l[1], c[1]), Table(l[2], c[2]), pk, names, omit) :
     l \in Layouts \X Layouts, c \in SrceCustomers \X TrgtCustomers,
     pk \in KeyNames, names \in TableNames, omit \in OmitLists}

NoIndexed == [index |-> <<>>, columns |-> <<>>, rows |-> <<>>]

Init ==
  /\ \/ args \in GridArguments
     \/ args \in SelfArguments
     \/ args \in ScenarioArguments
  /\ caller_srce = args.srce_df
  /\ caller_trgt = args.trgt_df
  /\ pc = "call"
  /\ srce_df = args.srce_df
  /\ trgt_df = args.trgt_df
  /\ error = NoError
  /\ missing_data_df = <<>>
  /\ srce_df_indexed = NoIndexed
  /\ trgt_df_indexed = NoIndexed
  /\ common_indices = <<>>
  /\ columns_to_compare = <<>>
  /\ differences = <<>>
  /\ pos = 0
  /\ mismatch_columns_df = <<>>
  /\ returned = <<>>
  /\ previous = <<>>
  /\ older = NotCalled
  /\ MQIdle
  /\ DBIdle
  /\ KeyIdle

\* ------------------------------------------------------------ steps
\* the column names of both frames are lower-cased in place, on the objects the
\* caller passed; then the local names are rebound to string copies
Normalize ==
  /\ pc = "call"
  /\ caller_srce' = [caller_srce EXCEPT !.columns = columns_str_lower(caller_srce)]
  /\ caller_trgt' = [caller_trgt EXCEPT !.columns = columns_str_lower(caller_trgt)]
  /\ srce_df' = astype_str(caller_srce')
  /\ trgt_df' = astype_str(caller_trgt')
  /\ pc' = "validate"
  /\ UNCHANGED <<others, args, previous, error, missing_data_df, srce_df_indexed, trgt_df_indexed,
                 common_indices, columns_to_compare, differences, pos,
                 mismatch_columns_df, returned>>

Validate ==
  /\ pc = "validate"
  /\ error' = validate(srce_df.columns, trgt_df.columns, args.primary_key)
  /\ pc' = IF error' = NoError THEN "missing" ELSE "raised"
  /\ UNCHANGED <<others, args, previous, caller_srce, caller_trgt, srce_df, trgt_df, missing_data_df,
                 srce_df_indexed, trgt_df_indexed, common_indices,
                 columns_to_compare, differences, pos, mismatch_columns_df,
                 returned>>

IdentifyMissing ==
  /\ pc = "missing"
  /\ missing_data_df' =
       or_message(missing_records(srce_df, trgt_df, args.primary_key,
                                  args.srce_table, args.trgt_table),
                  MESSAGE_NO_MISMATCHED_RECORDS)
  /\ pc' = "prepare"
  /\ UNCHANGED <<others, args, previous, caller_srce, caller_trgt, srce_df, trgt_df, error,
                 srce_df_indexed, trgt_df_indexed, common_indices,
                 columns_to_compare, differences, pos, mismatch_columns_df,
                 returned>>

PrepareComparison ==
  /\ pc = "prepare"
  /\ srce_df_indexed' = set_index(srce_df, args.primary_key)
  /\ trgt_df_indexed' = set_index(trgt_df, args.primary_key)
  /\ common_indices' = intersection(srce_df_indexed'.index, trgt_df_indexed'.index)
  /\ columns_to_compare' =
       select_columns(srce_df_indexed'.columns, args.primary_key, args.omit_columns)
  /\ differences' = <<>>
  /\ pos' = 1
  /\ pc' = "compare"
  /\ UNCHANGED <<others, args, previous, caller_srce, caller_trgt, srce_df, trgt_df, error,
                 missing_data_df, mismatch_columns_df, returned>>

\* mutant of CompareRecord: a column already reported for an earlier key is
\* not reported again
CompareRecord_once_per_column ==
  /\ pc = "compare"
  /\ pos <= Len(common_indices)
  /\ LET result == compare_record(common_indices[pos], columns_to_compare,
                                  srce_df_indexed, trgt_df_indexed)
         reported == {differences[i].column : i \in 1..Len(differences)}
     IN IF result.raised
        THEN /\ error' = AmbiguousTruthValue
             /\ pc' = "raised"
             /\ UNCHANGED <<differences, pos>>
        ELSE /\ differences' =
                  differences \o SelectSeq(result.differences,
                                           LAMBDA d : d.column \notin reported)
             /\ pos' = pos + 1
             /\ UNCHANGED <<error, pc>>
  /\ UNCHANGED <<others, args, previous, caller_srce, caller_trgt, srce_df, trgt_df, missing_data_df,
                 srce_df_indexed, trgt_df_indexed, common_indices,
                 columns_to_compare, mismatch_columns_df, returned>>

CompareRecord ==
  /\ pc = "compare"
  /\ pos <= Len(common_indices)
  /\ LET result == compare_record(common_indices[pos], columns_to_compare,
                                  srce_df_indexed, trgt_df_indexed)
     IN IF result.raised
        THEN /\ error' = AmbiguousTruthValue
             /\ pc' = "raised"
             /\ UNCHANGED <<differences, pos>>
        ELSE /\ differences' = differences \o result.differences
             /\ pos' = pos + 1
             /\ UNCHANGED <<error, pc>>
  /\ UNCHANGED <<others, args, previous, caller_srce, caller_trgt, srce_df, trgt_df, missing_data_df,
                 srce_df_indexed, trgt_df_indexed, common_indices,
                 columns_to_compare, mismatch_columns_df, returned>>

Return ==
  /\ pc = "compare"
  /\ pos > Len(common_indices)
  /\ mismatch_columns_df' = or_message(differences, MESSAGE_NO_DIFFERENCES_FOUND)
  /\ returned' = <<missing_data_df, mismatch_columns_df'>>
  /\ pc' = "done"
  /\ UNCHANGED <<others, args, previous, caller_srce, caller_trgt, srce_df, trgt_df, error,
                 missing_data_df, srce_df_indexed, trgt_df_indexed, common_indices,
                 columns_to_compare, differences, pos>>

Next ==
  \/ Normalize
  \/ Validate
  \/ IdentifyMissing
  \/ PrepareComparison
  \/ CompareRecord
  \/ Return

Spec == Init /\ [][Next]_vars

\* the caller calls once more with the objects of the first call, as the
\* first call left them; the routine starts with fresh local names
CallAgain ==
  /\ pc \in {"done", "raised"}
  /\ previous = <<>>
  /\ previous' = <<[pc |-> pc, returned |-> returned, error |-> error]>>
  /\ srce_df' = caller_srce
  /\ trgt_df' = caller_trgt
  /\ pc' = "call"
  /\ error' = NoError
  /\ missing_data_df' = <<>>
  /\ srce_df_indexed' = NoIndexed
  /\ trgt_df_indexed' = NoIndexed
  /\ common_indices' = <<>>
  /\ columns_to_compare' = <<>>
  /\ differences' = <<>>
  /\ pos' = 0
  /\ mismatch_columns_df' = <<>>
  /\ returned' = <<>>
  /\ UNCHANGED <<others, args, caller_srce, caller_trgt>>

NextRepeated ==
  \/ Next
  \/ CallAgain

SpecRepeated == Init /\ [][NextRepeated]_vars

\* ------------------------------------------------------------ properties
\* The arguments are read as the caller passed them: a column by its
\* lower-cased name, a cell by the text str() gives it.
Fields(df) == {lower(df.columns[c]) : c \in 1..Len(df.columns)}

CellOf(df, r, field) ==
  df.rows[r][CHOOSE c \in 1..Len(df.columns) : lower(df.columns[c]) = field]

CellText(df, r, field) == PyStr(CellOf(df, r, field))

KeyTexts(df) == [r \in 1..Len(df.rows) |-> CellText(df, r, args.primary_key)]

OmittedFields == {lower(args.omit_columns[j]) : j \in 1..Len(args.omit_columns)}

ComparedFields == Fields(args.srce_df) \ ({args.primary_key} \cup OmittedFields)

\* both validations have passed and the missing records have been computed
Indexed ==
  \/ pc \in {"prepare", "compare", "done"}
  \/ pc = "raised" /\ error = AmbiguousTruthValue

\* the two reports without their placeholder
MissingRecords ==
  IF missing_data_df = <<[message |-> MESSAGE_NO_MISMATCHED_RECORDS]>>
  THEN <<>> ELSE missing_data_df

FieldMismatches ==
  IF mismatch_columns_df = <<[message |-> MESSAGE_NO_DIFFERENCES_FOUND]>>
  THEN <<>> ELSE mismatch_columns_df

MismatchesOf(key, field) ==
  {i \in 1..Len(FieldMismatches) :
     /\ FieldMismatches[i].primary_key = StrCell(key)
     /\ FieldMismatches[i].column = field}

\* C1: when the lower-cased column sets of the two tables differ, the call gets
\* past its validation only by raising the schema-mismatch error: no report is
\* returned, and neither the missing records nor the comparison have been
\* computed.
C1_SchemaGate ==
  (Fields(args.srce_df) # Fields(args.trgt_df) /\ pc \notin {"call", "validate"})
    => /\ pc = "raised"
       /\ error = SchemaMismatch
       /\ returned = <<>>
       /\ missing_data_df = <<>>
       /\ mismatch_columns_df = <<>>
       /\ differences = <<>>
       /\ common_indices = <<>>
       /\ pos = 0

\* the column sets differ and the key is in one table only: the schema error wins
C1_Witness ==
  /\ pc = "raised"
  /\ error = SchemaMismatch
  /\ args.primary_key \in Fields(args.srce_df) \ Fields(args.trgt_df)

\* C2: once the tables are validated, the missing records are the source rows
\* whose key is in no target row, in source order, then the target rows whose
\* key is in no source row, in target order; no key of both sides is reported.
C2_MissingRecordsExact ==
  Indexed =>
    LET S == KeyTexts(args.srce_df)
        T == KeyTexts(args.trgt_df)
        expected == SelectSeq(S, LAMBDA k : k \notin Range(T))
                      \o SelectSeq(T, LAMBDA k : k \notin Range(S))
        reported == [i \in 1..Len(MissingRecords) |-> MissingRecords[i].primary_key]
    IN /\ reported = [i \in 1..Len(expected) |-> StrCell(expected[i])]
       /\ \A i \in 1..Len(reported) :
            reported[i].s \notin Range(S) \cap Range(T)

\* two source rows and a target row are missing, and one key is on both sides
C2_Witness ==
  /\ pc = "done"
  /\ common_indices # <<>>
  /\ \E i, j \in 1..Len(MissingRecords) :
       /\ i < j
       /\ MissingRecords[i].missing_in = MISSING_IN_TARGET
       /\ MissingRecords[j].missing_in = MISSING_IN_SOURCE
  /\ Len(args.srce_df.rows) + Len(args.trgt_df.rows) > Len(MissingRecords) + 1

\* C3: for a key of both sides and a compared field, exactly one mismatch that
\* carries the two texts is reported when the texts of the two cells differ,
\* and none when they are equal.
C3_MismatchIffTextsDiffer ==
  pc = "done" =>
    \A rs \in 1..Len(args.srce_df.rows), rt \in 1..Len(args.trgt_df.rows) :
      KeyTexts(args.srce_df)[rs] = KeyTexts(args.trgt_df)[rt] =>
        \A f \in ComparedFields :
          LET sv == CellText(args.srce_df, rs, f)
              tv == CellText(args.trgt_df, rt, f)
              hits == MismatchesOf(KeyTexts(args.srce_df)[rs], f)
          IN IF sv # tv
             THEN /\ Cardinality(hits) = 1
                  /\ \A i \in hits :
                       /\ FieldMismatches[i].srce_df_value = StrCell(sv)
                       /\ FieldMismatches[i].trgt_df_value = StrCell(tv)
             ELSE hits = {}

\* the scenario of the specification: {id:1, age:30} against {id:1, age:31}
C3_Witness ==
  /\ pc = "done"
  /\ args.srce_df = DataFrame(<<"id", "age">>, <<<<IntCell(1), IntCell(30)>>>>)
  /\ args.trgt_df = DataFrame(<<"id", "age">>, <<<<IntCell(1), IntCell(31)>>>>)
  /\ returned[2] = <<[primary_key |-> StrCell("1"), column |-> "age",
                      srce_df_value |-> StrCell("30"),
                      trgt_df_value |-> StrCell("31")]>>

\* C4 (as claimed): for a key of both sides and a compared field, a cell absent
\* (NaN or None) on both sides gives no mismatch, and a cell absent on exactly
\* one side gives exactly one.
C4_AbsenceSymmetry ==
  pc = "done" =>
    \A rs \in 1..Len(args.srce_df.rows), rt \in 1..Len(args.trgt_df.rows) :
      KeyTexts(args.srce_df)[rs] = KeyTexts(args.trgt_df)[rt] =>
        \A f \in ComparedFields :
          LET source_absent == isna(CellOf(args.srce_df, rs, f))
              target_absent == isna(CellOf(args.trgt_df, rt, f))
              hits == MismatchesOf(KeyTexts(args.srce_df)[rs], f)
          IN /\ (source_absent /\ target_absent) => hits = {}
             /\ (source_absent # target_absent) => Cardinality(hits) = 1

\* C5: no difference found, at any point of the comparison or in the report,
\* names the key column or a column of omit_columns, whatever the case the
\* omitted names were given in; with every other column omitted the report is
\* the placeholder alone.
C5_ExcludedNeverReported ==
  /\ (pc = "done" /\ ComparedFields = {})
       => returned[2] = <<[message |-> MESSAGE_NO_DIFFERENCES_FOUND]>>
  /\ \A report \in {differences, FieldMismatches} :
      \A i \in 1..Len(report) :
        /\ report[i].column \notin {args.primary_key, lower(args.primary_key)}
        /\ lower(report[i].column) \notin OmittedFields

\* AGE is omitted, a record of both sides differs in age and in name, and the
\* report names the name only
C5_Witness ==
  /\ pc = "done"
  /\ args.omit_columns = <<"AGE">>
  /\ \E rs \in 1..Len(args.srce_df.rows), rt \in 1..Len(args.trgt_df.rows) :
       /\ KeyTexts(args.srce_df)[rs] = KeyTexts(args.trgt_df)[rt]
       /\ "age" \in Fields(args.srce_df)
       /\ CellText(args.srce_df, rs, "age") # CellText(args.trgt_df, rt, "age")
  /\ FieldMismatches # <<>>
  /\ \A i \in 1..Len(FieldMismatches) : FieldMismatches[i].column = "name"

\* C6 (as claimed): a key given in another case than the column has does not
\* make the call fail with the missing-key error.
C6_KeyCaseInsensitive ==
  ~ /\ pc = "raised"
    /\ error = MissingKeyColumn(args.primary_key)
    /\ lower(args.primary_key) \in Fields(args.srce_df) \cap Fields(args.trgt_df)

HasDuplicateKey(df) ==
  \E r1, r2 \in 1..Len(df.rows) : r1 # r2 /\ KeyTexts(df)[r1] = KeyTexts(df)[r2]

LastRowOf(df, key) ==
  CHOOSE r \in 1..Len(df.rows) :
    /\ KeyTexts(df)[r] = key
    /\ \A q \in (r + 1)..Len(df.rows) : KeyTexts(df)[q] # key

\* C7 (as claimed): with a key in several rows of a side the call completes
\* without an error, and the mismatches of a key are those of the last row
\* with that key on each side.
C7_DuplicateKeysLastWins ==
  (Indexed /\ (HasDuplicateKey(args.srce_df) \/ HasDuplicateKey(args.trgt_df)))
    => /\ pc # "raised"
       /\ pc = "done" =>
            \A key \in Range(KeyTexts(args.srce_df))
                         \cap Range(KeyTexts(args.trgt_df)) :
              \A f \in ComparedFields :
                (MismatchesOf(key, f) # {})
                  <=> CellText(args.srce_df, LastRowOf(args.srce_df, key), f)
                        # CellText(args.trgt_df, LastRowOf(args.trgt_df, key), f)

\* C8 (as claimed): from the first step of the call on, and after it, the two
\* tables the caller owns are what the caller passed, column names included.
C8_InputsNotMutated ==
  pc # "call" => caller_srce = args.srce_df /\ caller_trgt = args.trgt_df

\* C9: a record of a row with no counterpart in the target is tagged "Target"
\* and carries the target's table name; a record of a row with no counterpart
\* in the source is tagged "Source" and carries the source's table name.
C9_MissingTagAndTable ==
  Indexed =>
    \A i \in 1..Len(MissingRecords) :
      LET record == MissingRecords[i]
          in_source == record.primary_key.s \in Range(KeyTexts(args.srce_df))
          in_target == record.primary_key.s \in Range(KeyTexts(args.trgt_df))
      IN \/ /\ in_source /\ ~in_target
            /\ record.missing_in = "Target"
            /\ record.table_name = args.trgt_table
         \/ /\ in_target /\ ~in_source
            /\ record.missing_in = "Source"
            /\ record.table_name = args.srce_table

\* the scenario of the specification: source ids {1, 2}, target ids {1, 3}
C9_Witness ==
  /\ pc = "done"
  /\ args.srce_table # args.trgt_table
  /\ returned[1] = <<[primary_key |-> StrCell("2"), missing_in |-> "Target",
                      table_name |-> args.trgt_table],
                     [primary_key |-> StrCell("3"), missing_in |-> "Source",
                      table_name |-> args.srce_table]>>

\* C10 (as claimed): a missing record carries the table name of the side where
\* its row exists.
C10_TableOfSideWhereRowExists ==
  Indexed =>
    \A i \in 1..Len(MissingRecords) :
      /\ MissingRecords[i].primary_key.s \in Range(KeyTexts(args.srce_df))
           => MissingRecords[i].table_name = args.srce_table
      /\ MissingRecords[i].primary_key.s \in Range(KeyTexts(args.trgt_df))
           => MissingRecords[i].table_name = args.trgt_table

\* C10 (amended): a missing record carries the table name of the side its row
\* is missing from, the side where no row has its key.
C10_TableOfSideMissingFrom ==
  Indexed =>
    \A i \in 1..Len(MissingRecords) :
      LET key == MissingRecords[i].primary_key.s
          absent_from ==
            {side \in {"srce", "trgt"} :
               key \notin Range(KeyTexts(IF side = "srce" THEN args.srce_df
                                         ELSE args.trgt_df))}
      IN /\ Cardinality(absent_from) = 1
         /\ MissingRecords[i].table_name =
              (IF absent_from = {"srce"} THEN args.srce_table ELSE args.trgt_table)

\* a row of the source alone is reported under the name of the target, which
\* is another name than the source's
C10_Witness ==
  /\ Indexed
  /\ args.srce_table # args.trgt_table
  /\ \E i \in 1..Len(MissingRecords) :
       /\ MissingRecords[i].primary_key.s \in Range(KeyTexts(args.srce_df))
       /\ MissingRecords[i].table_name = args.trgt_table

KeyAbsentFrom(df) == lower(args.primary_key) \notin Fields(df)

C12_SchemaErrorNamesDifference ==
  (pc = "raised" /\ Fields(args.srce_df) # Fields(args.trgt_df))
    => Range(error.args)
         = (Fields(args.srce_df) \ Fields(args.trgt_df))
             \cup (Fields(args.trgt_df) \ Fields(args.srce_df))

\* C13 (as claimed): the only errors of the call are the two validation
\* errors; once both validations have passed the call raises nothing.
C13_NoErrorAfterValidation ==
  pc = "raised" => error.msg \in {SchemaMismatch.msg, MissingKeyColumn("").msg}

\* C14 (as claimed): reconciling a table that has its key column against
\* itself returns two reports, each holding only its no-difference message.
C14_Idempotence ==
  (args.srce_df = args.trgt_df /\ ~KeyAbsentFrom(args.srce_df)
     /\ pc \in {"done", "raised"})
    => /\ pc = "done"
       /\ returned = <<<<[message |-> MESSAGE_NO_MISMATCHED_RECORDS]>>,
                       <<[message |-> MESSAGE_NO_DIFFERENCES_FOUND]>>>>

KeysTagged(report, side) ==
  LET tagged == SelectSeq(report, LAMBDA m : m.missing_in = side)
  IN [i \in 1..Len(tagged) |-> tagged[i].primary_key]

\* the missing records of the call with source and target exchanged
SwappedMissingRecords ==
  missing_records(trgt_df, srce_df, args.primary_key, args.trgt_table,
                  args.srce_table)

\* C15: the keys reported missing in the target are those the call with the
\* two tables exchanged reports missing in the source, and the other way
\* round; both call orders report the same set of missing keys.  Stated of
\* the missing records as first computed and as returned.
C15_MissingSymmetry ==
  pc \in {"prepare", "done"} =>
    /\ KeysTagged(MissingRecords, MISSING_IN_TARGET)
         = KeysTagged(SwappedMissingRecords, MISSING_IN_SOURCE)
    /\ KeysTagged(MissingRecords, MISSING_IN_SOURCE)
         = KeysTagged(SwappedMissingRecords, MISSING_IN_TARGET)
    /\ {MissingRecords[i].primary_key : i \in 1..Len(MissingRecords)}
         = {SwappedMissingRecords[i].primary_key :
              i \in 1..Len(SwappedMissingRecords)}

C15_Witness ==
  /\ pc = "done"
  /\ KeysTagged(MissingRecords, MISSING_IN_TARGET) # <<>>
  /\ KeysTagged(MissingRecords, MISSING_IN_SOURCE) # <<>>
  /\ KeysTagged(MissingRecords, MISSING_IN_TARGET)
       # KeysTagged(MissingRecords, MISSING_IN_SOURCE)

HasMessage(report) ==
  \E i \in 1..Len(report) : "message" \in DOMAIN report[i]

\* some field that is compared differs between two rows of the same key
SomeFieldDiffers ==
  \E rs \in 1..Len(args.srce_df.rows), rt \in 1..Len(args.trgt_df.rows),
     f \in ComparedFields :
    /\ KeyTexts(args.srce_df)[rs] = KeyTexts(args.trgt_df)[rt]
    /\ CellText(args.srce_df, rs, f) # CellText(args.trgt_df, rt, f)

\* C16: of the two returned reports, the missing records are the single
\* message record exactly when both tables hold the same keys, the field
\* mismatches are the single message record exactly when no compared field
\* differs; a report that is not that single record is not empty and holds no
\* message record.
C16_PlaceholderPerReport ==
  pc = "done" =>
    /\ returned[1] = <<[message |-> MESSAGE_NO_MISMATCHED_RECORDS]>>
         <=> Range(KeyTexts(args.srce_df)) = Range(KeyTexts(args.trgt_df))
    /\ returned[2] = <<[message |-> MESSAGE_NO_DIFFERENCES_FOUND]>>
         <=> ~SomeFieldDiffers
    /\ \A n \in 1..2 :
         \/ returned[n] \in {<<[message |-> MESSAGE_NO_MISMATCHED_RECORDS]>>,
                             <<[message |-> MESSAGE_NO_DIFFERENCES_FOUND]>>}
         \/ returned[n] # <<>> /\ ~HasMessage(returned[n])

\* one report is the message record and the other one holds records
C16_Witness ==
  /\ pc = "done"
  /\ \/ HasMessage(returned[1]) /\ ~HasMessage(returned[2])
     \/ ~HasMessage(returned[1]) /\ HasMessage(returned[2])
  /\ Len(returned[1]) + Len(returned[2]) > 2

\* the first row of the source that holds the key, and the place of a column
\* among the columns of the source
SourceKeyRank(key) ==
  CHOOSE r \in 1..Len(args.srce_df.rows) :
    /\ KeyTexts(args.srce_df)[r] = key
    /\ \A q \in 1..(r - 1) : KeyTexts(args.srce_df)[q] # key
SourceColumnRank(field) ==
  CHOOSE c \in 1..Len(args.srce_df.columns) : lower(args.srce_df.columns[c]) = field

\* C17: the returned field mismatches are grouped by key in the order in which
\* the keys first appear in the source, and within a key they follow the order
\* of the source's columns; the order of the target's rows and columns plays
\* no part.
C17_SourceOrder ==
  pc = "done" =>
    \A i, j \in 1..Len(FieldMismatches) :
      i < j =>
        LET ki == SourceKeyRank(FieldMismatches[i].primary_key.s)
            kj == SourceKeyRank(FieldMismatches[j].primary_key.s)
        IN \/ ki < kj
           \/ /\ ki = kj
              /\ SourceColumnRank(FieldMismatches[i].column)
                   < SourceColumnRank(FieldMismatches[j].column)

\* two keys with two mismatches each, where the target holds the rows and the
\* columns in another order than the source
C17_Witness ==
  /\ pc = "done"
  /\ Len(FieldMismatches) = 4
  /\ args.srce_df.columns = <<"id", "age", "name">>
  /\ args.trgt_df.columns = <<"ID", "Name", "AGE">>
  /\ KeyTexts(args.srce_df) = <<"1", "2">>
  /\ KeyTexts(args.trgt_df) = <<"2", "1">>

RECURSIVE Flatten(_)
Flatten(seqs) == IF seqs = <<>> THEN <<>> ELSE Head(seqs) \o Flatten(Tail(seqs))

\* the mismatches of one common key, from the source row and the target row
\* of that key alone
PerKeyMismatches(key) ==
  LET rs == CHOOSE r \in 1..Len(args.srce_df.rows) : KeyTexts(args.srce_df)[r] = key
      rt == CHOOSE r \in 1..Len(args.trgt_df.rows) : KeyTexts(args.trgt_df)[r] = key
      fields == SelectSeq([c \in 1..Len(args.srce_df.columns) |->
                             lower(args.srce_df.columns[c])],
                          LAMBDA f : f \in ComparedFields)
  IN Flatten([n \in 1..Len(fields) |->
       IF CellText(args.srce_df, rs, fields[n]) = CellText(args.trgt_df, rt, fields[n])
       THEN <<>>
       ELSE <<[primary_key |-> StrCell(key), column |-> fields[n],
               srce_df_value |-> StrCell(CellText(args.srce_df, rs, fields[n])),
               trgt_df_value |-> StrCell(CellText(args.trgt_df, rt, fields[n]))]>>])

\* C19: the comparison of one common key depends on the two rows of that key
\* only: after any number of passes of the loop the differences are the
\* per-key mismatches of the keys passed, concatenated in the order of the
\* common keys, so comparing the keys in shards and concatenating the per-key
\* results in that order gives the sequence the loop gives.
C19_PerKeyIndependent ==
  pc \in {"compare", "done"} =>
    /\ differences
         = Flatten([n \in 1..(pos - 1) |-> PerKeyMismatches(common_indices[n].s)])
    /\ pc = "done" =>
         /\ pos = Len(common_indices) + 1
         /\ FieldMismatches = differences

\* the second of two keys has added its mismatches behind those of the first
C19_Witness ==
  /\ pc = "compare"
  /\ pos = 3
  /\ PerKeyMismatches(common_indices[1].s) # <<>>
  /\ PerKeyMismatches(common_indices[2].s) # <<>>
  /\ Len(differences) = Len(PerKeyMismatches(common_indices[1].s))
                          + Len(PerKeyMismatches(common_indices[2].s))

\* the common keys have been computed
KeysPartitioned ==
  \/ pc \in {"compare", "done"}
  \/ pc = "raised" /\ error = AmbiguousTruthValue

\* C20: every key of the source or the target is in exactly one of three
\* groups: reported missing in the target, reported missing in the source, or
\* a common key, which the loop compares; no common key is listed twice.
C20_KeyCoverage ==
  KeysPartitioned =>
    LET inTarget == Range(KeysTagged(MissingRecords, MISSING_IN_TARGET))
        inSource == Range(KeysTagged(MissingRecords, MISSING_IN_SOURCE))
        common == Range(common_indices)
        keys == {StrCell(k) : k \in Range(KeyTexts(args.srce_df))
                                      \cup Range(KeyTexts(args.trgt_df))}
    IN /\ inTarget \cup inSource \cup common = keys
       /\ inTarget \cap inSource = {}
       /\ inTarget \cap common = {}
       /\ inSource \cap common = {}
       /\ \A i, j \in 1..Len(common_indices) :
            common_indices[i] = common_indices[j] => i = j
       /\ pc = "done" => pos = Len(common_indices) + 1

\* a key in each of the three groups
C20_Witness ==
  /\ pc = "done"
  /\ KeysTagged(MissingRecords, MISSING_IN_TARGET) # <<>>
  /\ KeysTagged(MissingRecords, MISSING_IN_SOURCE) # <<>>
  /\ common_indices # <<>>

\* C18: a second call with the same arguments ends as the first one did, with
\* the same error or the same pair of reports: nothing of the first call
\* reaches the second.
C18_Determinism ==
  (previous # <<>> /\ pc \in {"done", "raised"})
    => previous[1] = [pc |-> pc, returned |-> returned, error |-> error]

\* the second call has returned mismatches, and the first call had renamed the
\* columns of the caller's frames
C18_Witness ==
  /\ previous # <<>>
  /\ pc = "done"
  /\ FieldMismatches # <<>>
  /\ MissingRecords # <<>>
  /\ caller_srce.columns # args.srce_df.columns

\* ------------------------------------------------------------ compare_records_cols
\* the older routine of dataframe_utils.py
MISSING_IN_SRCE == "Srce"
MESSAGE_NO_MIMATCHED_RECORDS == "There are no mimatched Records Oracle and Postgres"

SchemaMismatchOlder ==
  [exc |-> "ValueError",
   msg |-> "The Data Frames must have the same columns to Compare",
   args |-> <<>>]

\* the module imports pandas only; the name logging is not bound
NameErrorLogging ==
  [exc |-> "NameError", msg |-> "name 'logging' is not defined",
   args |-> <<"logging">>]

\* the loop over common_indices; it ends at the first pass that raises
RECURSIVE compare_rows(_, _, _, _)
compare_rows(indices, cols, srce_indexed, pg_indexed) ==
  IF indices = <<>> THEN [raised |-> FALSE, differences |-> <<>>]
  ELSE LET first == compare_record(Head(indices), cols, srce_indexed, pg_indexed)
           rest == compare_rows(Tail(indices), cols, srce_indexed, pg_indexed)
       IN IF first.raised THEN first
          ELSE IF rest.raised THEN rest
          ELSE [raised |-> FALSE,
                differences |-> first.differences \o rest.differences]

compare_records_cols(srce, trgt, primary_key, srce_table, trgt_table) ==
  LET srce_str == astype_str([srce EXCEPT !.columns = columns_str_lower(srce)])
      trgt_str == astype_str([trgt EXCEPT !.columns = columns_str_lower(trgt)])
      raise(e) == [pc |-> "raised", returned |-> <<>>, error |-> e]
  IN IF Range(srce_str.columns) # Range(trgt_str.columns)
     THEN raise(SchemaMismatchOlder)
     ELSE IF \/ primary_key \notin Range(srce_str.columns)
             \/ primary_key \notin Range(trgt_str.columns)
     THEN raise(MissingKeyColumn(primary_key))
     ELSE
       LET missing ==
             rows_missing_in(srce_str, trgt_str, primary_key, MISSING_IN_TARGET,
                             trgt_table)
               \o rows_missing_in(trgt_str, srce_str, primary_key,
                                  MISSING_IN_SRCE, srce_table)
           srce_indexed == set_index(srce_str, primary_key)
           pg_indexed == set_index(trgt_str, primary_key)
           compared ==
             compare_rows(intersection(srce_indexed.index, pg_indexed.index),
                          srce_indexed.columns, srce_indexed, pg_indexed)
       IN IF missing = <<>> THEN raise(NameErrorLogging)        \* line 84
          ELSE IF compared.raised THEN raise(AmbiguousTruthValue) \* line 105
          ELSE raise(NameErrorLogging)                            \* lines 129, 133

\* the caller hands copies of the same input to the older routine
CompareRecordsCols ==
  /\ pc \in {"done", "raised"}
  /\ older = NotCalled
  /\ older' = compare_records_cols(args.srce_df, args.trgt_df, args.primary_key,
                                   args.srce_table, args.trgt_table)
  /\ UNCHANGED <<args, caller_srce, caller_trgt, pc, srce_df, trgt_df, error,
                 missing_data_df, srce_df_indexed, trgt_df_indexed,
                 common_indices, columns_to_compare, differences, pos,
                 mismatch_columns_df, returned, previous, mq_vars, db_vars,
                 key_vars>>

NextOlder ==
  \/ Next
  \/ CompareRecordsCols

SpecOlder == Init /\ [][NextOlder]_vars

\* C21 (as claimed): called without omit_columns on the same input, the two
\* routines end alike: both raise, or both return and return the same pair of
\* reports.
C21_OlderEquivalent ==
  (pc \in {"done", "raised"} /\ older # NotCalled /\ args.omit_columns = <<>>)
    => /\ older.pc = pc
       /\ pc = "done" => older.returned = returned

\* ------------------------------------------------------------ MQClient
\* audit_dataframe_differences is not in use
AuditIdle ==
  /\ args = Arguments(DataFrame(<<>>, <<>>), DataFrame(<<>>, <<>>), "",
                      <<"", "">>, <<>>)
  /\ caller_srce = args.srce_df
  /\ caller_trgt = args.trgt_df
  /\ pc = "idle"
  /\ srce_df = args.srce_df
  /\ trgt_df = args.trgt_df
  /\ error = NoError
  /\ missing_data_df = <<>>
  /\ srce_df_indexed = NoIndexed
  /\ trgt_df_indexed = NoIndexed
  /\ common_indices = <<>>
  /\ columns_to_compare = <<>>
  /\ differences = <<>>
  /\ pos = 0
  /\ mismatch_columns_df = <<>>
  /\ returned = <<>>
  /\ previous = <<>>
  /\ older = NotCalled

audit_vars ==
  <<args, caller_srce, caller_trgt, pc, srce_df, trgt_df, error, missing_data_df,
    srce_df_indexed, trgt_df_indexed, common_indices, columns_to_compare,
    differences, pos, mismatch_columns_df, returned, previous, older>>

\* the largest number of calls of the client's methods, and of messages queued
MaxCalls == 4
MaxQueued == 3
\* message texts; a message of length zero is a message
Messages == {"a", "b", ""}

Call(op, raised, result, handle, before, max_messages) ==
  [op |-> op, raised |-> raised, result |-> result, handle |-> handle,
   before |-> before, max_messages |-> max_messages]

\* after __init__ both attributes are None; other programs may have put
\* messages on the queue
InitMQ ==
  /\ AuditIdle
  /\ DBIdle
  /\ KeyIdle
  /\ queue = "None"
  /\ qmgr = "None"
  /\ broker \in UNION {[1..n -> Messages] : n \in 0..MaxQueued}
  /\ out_file = <<>>
  /\ mq_call = NoCall
  /\ mq_calls = 0

\* pymqi.connect and pymqi.Queue build new objects, or pymqi.connect raises
Connect ==
  /\ mq_calls < MaxCalls
  /\ mq_calls' = mq_calls + 1
  /\ \E connected \in BOOLEAN :
       /\ qmgr' = IF connected THEN "connected" ELSE qmgr
       /\ queue' = IF connected THEN "open" ELSE queue
       /\ mq_call' = Call("connect", ~connected, <<>>, "-", broker, 0)
  /\ UNCHANGED <<broker, out_file, audit_vars, db_vars, key_vars>>

\* both attributes keep referring to the objects that were closed.  What
\* close() and disconnect() do to an object closed before is the library's
\* choice: they raise or they do nothing.
Disconnect ==
  /\ mq_calls < MaxCalls
  /\ mq_calls' = mq_calls + 1
  /\ \E close_raises, disconnect_raises \in BOOLEAN :
       LET close_failed == queue = "closed" /\ close_raises
           disconnect_failed ==
             ~close_failed /\ qmgr = "disconnected" /\ disconnect_raises
       IN /\ queue' = IF queue = "open" THEN "closed" ELSE queue
          /\ qmgr' = IF ~close_failed /\ qmgr = "connected"
                     THEN "disconnected" ELSE qmgr
          /\ mq_call' = Call("disconnect", close_failed \/ disconnect_failed,
                             <<>>, "-", broker, 0)
  /\ UNCHANGED <<broker, out_file, audit_vars, db_vars, key_vars>>

\* `if not self.queue: self.connect()`: the object self.queue refers to after
\* it, given whether a connect would succeed
queue_after_check(connected) ==
  IF queue = "None" THEN (IF connected THEN "open" ELSE "None") ELSE queue
qmgr_after_check(connected) ==
  IF queue = "None" /\ connected THEN "connected" ELSE qmgr

\* put on a closed queue raises
SendMessage ==
  /\ mq_calls < MaxCalls
  /\ mq_calls' = mq_calls + 1
  /\ \E message \in Messages, connected \in BOOLEAN :
       LET handle == queue_after_check(connected)
       IN /\ queue' = handle
          /\ qmgr' = qmgr_after_check(connected)
          /\ handle = "open" => Len(broker) < MaxQueued
          /\ broker' = IF handle = "open" THEN Append(broker, message) ELSE broker
          /\ mq_call' = Call("send_message", handle # "open", <<>>,
                             IF handle = "None" THEN "-" ELSE handle, broker, 0)
  /\ UNCHANGED <<out_file, audit_vars, db_vars, key_vars>>

\* get returns the first message, or fails with MQRC_NO_MSG_AVAILABLE when the
\* wait interval ends, or fails with another reason; the result is <<>> for
\* None and <<message>> for a message
ReceiveMessage ==
  /\ mq_calls < MaxCalls
  /\ mq_calls' = mq_calls + 1
  /\ \E other_error, connected \in BOOLEAN :
       LET handle == queue_after_check(connected)
           got == handle = "open" /\ ~other_error /\ broker # <<>>
       IN /\ queue' = handle
          /\ qmgr' = qmgr_after_check(connected)
          /\ broker' = IF got THEN Tail(broker) ELSE broker
          /\ mq_call' = Call("receive_message", handle # "open" \/ other_error,
                             IF got THEN <<Head(broker)>> ELSE <<>>,
                             IF handle = "None" THEN "-" ELSE handle, broker, 0)
  /\ UNCHANGED <<out_file, audit_vars, db_vars, key_vars>>

\* the messages the loop writes: it goes on while receive_message returns
\* something true, at most n times
RECURSIVE written_messages(_, _)
written_messages(messages, n) ==
  IF n = 0 \/ messages = <<>> \/ Head(messages) = "" THEN <<>>
  ELSE <<Head(messages)>> \o written_messages(Tail(messages), n - 1)

\* the file is opened for writing before the first receive; fail_at is the
\* receive at which get fails with another reason than no message (0: none)
ReceiveMessagesToFile ==
  /\ mq_calls < MaxCalls
  /\ mq_calls' = mq_calls + 1
  /\ \E max_messages \in 0..MaxQueued, fail_at \in 0..MaxQueued,
        connected \in BOOLEAN :
       LET handle == IF max_messages = 0 THEN queue
                     ELSE queue_after_check(connected)
           all == IF handle = "open"
                  THEN written_messages(broker, max_messages) ELSE <<>>
           failed == /\ handle = "open"
                     /\ fail_at \in 1..max_messages
                     /\ fail_at <= Len(all) + 1
           written == IF failed THEN SubSeq(all, 1, fail_at - 1) ELSE all
           \* a message that is not true has been taken off the queue
           taken == IF /\ ~failed
                       /\ Len(written) < max_messages
                       /\ Len(written) < Len(broker)
                    THEN Len(written) + 1 ELSE Len(written)
       IN /\ queue' = handle
          /\ qmgr' = IF max_messages = 0 THEN qmgr ELSE qmgr_after_check(connected)
          /\ out_file' = [i \in 1..Len(written) |-> written[i] \o "\n"]
          /\ broker' = SubSeq(broker, taken + 1, Len(broker))
          /\ mq_call' =
               Call("receive_messages_to_file",
                    max_messages > 0 /\ (handle # "open" \/ failed), <<>>,
                    IF max_messages = 0 \/ handle = "None" THEN "-" ELSE handle,
                    broker, max_messages)
  /\ UNCHANGED <<audit_vars, db_vars, key_vars>>

NextMQ ==
  \/ Connect
  \/ Disconnect
  \/ SendMessage
  \/ ReceiveMessage
  \/ ReceiveMessagesToFile

SpecMQ == InitMQ /\ [][NextMQ]_vars

\* C22 (as claimed): send_message and receive_message put to and get from an
\* open queue only; whenever the client holds no open queue they connect
\* first, also after disconnect().
C22_NeverUsesClosedQueue ==
  mq_call.op \in {"send_message", "receive_message", "receive_messages_to_file"}
    => mq_call.handle # "closed"

Min(a, b) == IF a < b THEN a ELSE b

\* C23 (as claimed): on an open queue receive_message returns the first
\* message if there is one and None if there is none; receive_messages_to_file
\* writes, in their order, the messages received before the first receive
\* that returns None, at most max_messages of them.
C23_ReceiveUntilNoMessage ==
  /\ (mq_call.op = "receive_message" /\ ~mq_call.raised)
       => mq_call.result = IF mq_call.before = <<>> THEN <<>>
                           ELSE <<Head(mq_call.before)>>
  /\ (mq_call.op = "receive_messages_to_file" /\ ~mq_call.raised)
       => out_file =
            [i \in 1..Min(mq_call.max_messages, Len(mq_call.before)) |->
               mq_call.before[i] \o "\n"]

\* ------------------------------------------------------------ Database.run_query
\* the largest number of run_query calls
MaxQueries == 3

InitDB ==
  /\ AuditIdle
  /\ MQIdle
  /\ KeyIdle
  /\ DBIdle

\* one step of the try block: it goes on to `next`, or it raises and control
\* passes to the except clause; `failed` names the step that raised
Try(step, next, ok) ==
  /\ db_pc = step
  /\ db_pc' = IF ok THEN next ELSE "except"
  /\ db_result' = IF ok THEN db_result ELSE [db_result EXCEPT !.failed = step]

\* entry: the two password checks raise ValueError out of the call
RunQuery ==
  /\ db_pc = "idle"
  /\ queries < MaxQueries
  /\ queries' = queries + 1
  /\ conn' = "unbound"
  /\ cursor' = "unbound"
  /\ \E password \in BOOLEAN :
       IF password
       THEN /\ db_pc' = "init_oracle_client"
            /\ db_result' = NoResult
       ELSE /\ db_pc' = "idle"
            /\ db_result' = [outcome |-> "raised", df |-> "", failed |-> "password"]
  /\ UNCHANGED <<connections, audit_vars, mq_vars, key_vars>>

InitOracleClient ==
  /\ \E ok \in BOOLEAN : Try("init_oracle_client", "connect", ok)
  /\ UNCHANGED <<conn, cursor, connections, queries, audit_vars, mq_vars, key_vars>>

ConnectOracle ==
  /\ \E ok \in BOOLEAN :
       /\ Try("connect", "cursor", ok)
       /\ conn' = IF ok THEN "open" ELSE conn
       /\ connections' = IF ok THEN connections + 1 ELSE connections
  /\ UNCHANGED <<cursor, queries, audit_vars, mq_vars, key_vars>>

CreateCursor ==
  /\ \E ok \in BOOLEAN :
       /\ Try("cursor", "execute", ok)
       /\ cursor' = IF ok THEN "open" ELSE cursor
  /\ UNCHANGED <<conn, connections, queries, audit_vars, mq_vars, key_vars>>

Execute ==
  /\ \E ok \in BOOLEAN : Try("execute", "fetch", ok)
  /\ UNCHANGED <<conn, cursor, connections, queries, audit_vars, mq_vars, key_vars>>

\* cursor.description, fetchall and the DataFrame; `return df` leaves the try
\* block through the finally clause
Fetch ==
  /\ db_pc = "fetch"
  /\ \E ok \in BOOLEAN :
       /\ db_pc' = IF ok THEN "finally" ELSE "except"
       /\ db_result' = IF ok THEN [db_result EXCEPT !.df = "rows"]
                       ELSE [db_result EXCEPT !.failed = "fetch"]
  /\ UNCHANGED <<conn, cursor, connections, queries, audit_vars, mq_vars, key_vars>>

\* except Exception: log, return pd.DataFrame()
Except ==
  /\ db_pc = "except"
  /\ db_pc' = "finally"
  /\ db_result' = [db_result EXCEPT !.df = "empty"]
  /\ UNCHANGED <<conn, cursor, connections, queries, audit_vars, mq_vars, key_vars>>

\* finally: cursor.close() then conn.close() inside one try; a name that was
\* never bound raises UnboundLocalError, and whatever is raised skips the rest
\* of the two statements and is logged
Finally ==
  /\ db_pc = "finally"
  /\ \E cursor_closes, conn_closes \in BOOLEAN :
       LET cursor_closed == cursor = "open" /\ cursor_closes
           conn_closed == cursor_closed /\ conn = "open" /\ conn_closes
       IN /\ cursor' = IF cursor_closed THEN "closed" ELSE cursor
          /\ conn' = IF conn_closed THEN "closed" ELSE conn
          /\ connections' = IF conn_closed THEN connections - 1 ELSE connections
  /\ db_result' = [db_result EXCEPT !.outcome = "returned"]
  /\ db_pc' = "idle"
  /\ UNCHANGED <<queries, audit_vars, mq_vars, key_vars>>

NextDB ==
  \/ RunQuery
  \/ InitOracleClient
  \/ ConnectOracle
  \/ CreateCursor
  \/ Execute
  \/ Fetch
  \/ Except
  \/ Finally

SpecDB == InitDB /\ [][NextDB]_vars

\* C24 (as claimed): when run_query has returned, no connection it opened is
\* still open, whichever step failed, and after a failure the table returned
\* is the empty one.
C24_ConnectionsReleased ==
  (db_pc = "idle" /\ db_result.outcome = "returned")
    => /\ connections = 0
       /\ db_result.failed # "" => db_result.df = "empty"

\* ------------------------------------------------------------ get_expected_s3_key
\* the largest number of rows of df
MaxKeyRows == 3
Stores == {"ROSS", "ross", "TJMAX", "KMART"}
PriorityLists ==
  {<<"ROSS", "TJMAX">>, <<"TJMAX", "ROSS">>, <<"tjmax">>, <<>>}

upper(name) ==
  CASE name \in {"ROSS", "ross"} -> "ROSS"
    [] name \in {"TJMAX", "tjmax"} -> "TJMAX"
    [] name \in {"KMART", "kmart"} -> "KMART"
    [] OTHER -> name

\* the rows of the query of verify_service: a store and the key of its bucket
KeyRows(stores) ==
  [i \in 1..Len(stores) |->
     [std_img |-> stores[i], s3_bucket_id |-> "k" \o ToString(i)]]

InitKey ==
  /\ AuditIdle
  /\ MQIdle
  /\ DBIdle
  /\ key_df \in {KeyRows(stores) :
                   stores \in UNION {[1..n -> Stores] : n \in 0..MaxKeyRows}}
  /\ key_priority \in PriorityLists
  /\ key_result = <<>>
  /\ key_new_result = <<>>

str_upper(df) == [i \in 1..Len(df) |-> [df[i] EXCEPT !.std_img = upper(@)]]

\* the first row, in the order of the rows, whose store is in the list
RECURSIVE first_priority_row(_, _)
first_priority_row(rows, priority_list) ==
  IF rows = <<>> THEN "None"
  ELSE IF Head(rows).std_img
            \in {upper(priority_list[p]) : p \in 1..Len(priority_list)}
  THEN Head(rows).s3_bucket_id
  ELSE first_priority_row(Tail(rows), priority_list)

get_expected_s3_key(df, priority_list) ==
  first_priority_row(str_upper(df), priority_list)

\* the module does not import pandas: past the test for an empty df,
\* pd.to_datetime raises NameError (b_id is None)
get_expected_s3_key_new(df, priority_list) ==
  IF df = <<>> THEN [raised |-> FALSE, value |-> "None"]
  ELSE [raised |-> TRUE, value |-> "NameError: name 'pd' is not defined"]

\* the column std_img of the caller's df is upper-cased in place
GetExpectedS3Key ==
  /\ key_result = <<>>
  /\ key_result' = <<get_expected_s3_key(key_df, key_priority)>>
  /\ key_df' = str_upper(key_df)
  /\ UNCHANGED <<key_priority, key_new_result, audit_vars, mq_vars, db_vars>>

GetExpectedS3KeyNew ==
  /\ key_new_result = <<>>
  /\ key_new_result' = <<get_expected_s3_key_new(key_df, key_priority)>>
  /\ UNCHANGED <<key_df, key_priority, key_result, audit_vars, mq_vars, db_vars>>

NextKey ==
  \/ GetExpectedS3Key
  \/ GetExpectedS3KeyNew

SpecKey == InitKey /\ [][NextKey]_vars

\* the stores of the list that some row belongs to, by upper-cased name
StoresWithRows ==
  {p \in 1..Len(key_priority) :
     \E r \in 1..Len(key_df) : upper(key_df[r].std_img) = upper(key_priority[p])}

\* the upper-cased store of the row that holds a key, "None" for no key
StoreOfKey(key) ==
  IF \E r \in 1..Len(key_df) : key_df[r].s3_bucket_id = key
  THEN upper(key_df[CHOOSE r \in 1..Len(key_df) :
                      key_df[r].s3_bucket_id = key].std_img)
  ELSE "None"

\* C25 (as claimed): get_expected_s3_key returns None exactly when no row
\* belongs to a store of the priority list, and otherwise the key of a row of
\* the earliest store of the list that has a row; get_expected_s3_key_new
\* returns and selects the same store.
C25_StorePriority ==
  key_result # <<>> =>
    /\ key_result[1] = "None" <=> StoresWithRows = {}
    /\ key_result[1] # "None" =>
         /\ StoresWithRows # {}
         /\ StoreOfKey(key_result[1])
              = upper(key_priority[CHOOSE p \in StoresWithRows :
                                     \A q \in StoresWithRows : p <= q])
    /\ key_new_result # <<>> =>
         /\ ~key_new_result[1].raised
         /\ StoreOfKey(key_new_result[1].value) = StoreOfKey(key_result[1])
====
